---------------------------- MODULE Spec2Model ----------------------------
(***************************************************************************)
(* The MCP hub of Open-MCP-Manager: the aggregation router                 *)
(* (src/lib/mcp-router.ts), the session endpoints (GET /api/mcp/sse,       *)
(* POST /api/mcp/message), the store actions (src/app/actions.ts) and the  *)
(* namespacing codec the handlers apply inline.                            *)
(*                                                                         *)
(* Strings are sequences of one-character strings, so that split, join,    *)
(* concatenation and replace are computed and not assumed.  Every await    *)
(* of a handler is a step boundary: a request in flight is a record with   *)
(* a program counter, and requests of the same or of different routers     *)
(* interleave at their awaits as promises do on the event loop.            *)
(***************************************************************************)
EXTENDS Integers, Sequences, FiniteSets, TLC

\* ------------------------------------------------------------- bounds
MaxSessions == 2
MaxReqs == 2
MaxCodecLen == 3

\* ------------------------------------------------------------ strings
SEP == <<"_", "_">>
SCHEME == <<"m", "c", "p", ":", "/", "/">>
SLASH == <<"/">>

\* s.startsWith(p, at i)
MatchesAt(s, p, i) ==
    /\ i >= 1
    /\ i + Len(p) - 1 <= Len(s)
    /\ \A k \in 1..Len(p) : s[i + k - 1] = p[k]

\* s.indexOf(p), 1-based; 0 when p does not occur
IndexOf(s, p) ==
    IF \E i \in 1..Len(s) : MatchesAt(s, p, i)
    THEN CHOOSE i \in 1..Len(s) :
            /\ MatchesAt(s, p, i)
            /\ \A j \in 1..(i - 1) : ~MatchesAt(s, p, j)
    ELSE 0

\* s.substring(i - 1), 1-based i
DropFirst(s, n) == SubSeq(s, n + 1, Len(s))

\* s.split(p): the pieces between the successive, non-overlapping
\* occurrences of p found left to right
RECURSIVE Split(_, _)
Split(s, p) ==
    LET i == IndexOf(s, p)
    IN  IF i = 0 THEN <<s>>
        ELSE <<SubSeq(s, 1, i - 1)>> \o Split(DropFirst(s, i + Len(p) - 1), p)

\* parts.join(p)
RECURSIVE Join(_, _)
Join(parts, p) ==
    IF Len(parts) = 0 THEN <<>>
    ELSE IF Len(parts) = 1 THEN parts[1]
    ELSE parts[1] \o p \o Join(Tail(parts), p)

\* ReplaceFirst as a replaceAll: every occurrence goes
ReplaceFirst_All(s, p) == IF Len(p) = 0 THEN s ELSE Join(Split(s, p), <<>>)

\* s.replace(p, ""): the first occurrence only (a string pattern)
ReplaceFirst(s, p) ==
    LET i == IndexOf(s, p)
    IN  IF i = 0 THEN s
        ELSE SubSeq(s, 1, i - 1) \o DropFirst(s, i + Len(p) - 1)

\* -------------------------------------------------------------- codec
\* `${s.name}__${tool.name}`
EncodeName(serverName, localName) == serverName \o SEP \o localName

\* const [serverName, ...parts] = name.split("__"); parts.join("__")
DecodeName(name) ==
    LET parts == Split(name, SEP)
    IN  [server |-> parts[1], local |-> Join(Tail(parts), SEP)]

\* `mcp://${s.name}/${resource.uri}`
EncodeUri(serverName, localUri) == SCHEME \o serverName \o SLASH \o localUri

\* new URL(uri).host for an mcp://<authority>/... locator: the authority
\* runs from the end of "mcp://" to the next "/"
UrlHost(uri) ==
    LET rest == DropFirst(uri, Len(SCHEME))
        j == IndexOf(rest, SLASH)
    IN  IF j = 0 THEN rest ELSE SubSeq(rest, 1, j - 1)

\* url.host and uri.replace(`mcp://${serverName}/`, "")
DecodeUri(uri) ==
    LET host == UrlHost(uri)
    IN  [server |-> host, local |-> ReplaceFirst(uri, SCHEME \o host \o SLASH)]

\* ------------------------------------------------------------ universe
DefIds == {"d1", "d2"}
SessionIds == {"", "k1", "k2"}
Caps == {"tools", "resources", "prompts"}
Routers == 1..MaxSessions
ReqIds == 1..MaxReqs
NoParam == "null"
NoArgs == "undefined"

\* the rows of mcp_servers the dashboard created: names as slugify leaves them
InitStore ==
    [d \in DefIds |->
        [name |-> IF d = "d1" THEN <<"a">> ELSE <<"a", "_">>, is_active |-> TRUE]]

\* what each upstream reports for a list request, in its own order
UpstreamItems(d, cap) ==
    IF cap = "resources" THEN << <<"x">> >>
    ELSE IF d = "d1" THEN << <<"b">>, <<"_", "b">> >>
    ELSE << <<"b">> >>

\* the identifiers a hub client sends with an invocation
InvokeIds(cap) ==
    IF cap = "resources"
    THEN {EncodeUri(s, <<"x">>) : s \in {<<"a">>, <<"z">>}}
    ELSE {EncodeName(<<"a">>, <<"b">>), EncodeName(<<"z">>, <<"b">>)}

\* the messages a hub client posts for one capability category
Msgs(cap) ==
    [kind : {"list"}, cap : {cap}, id : {<<>>}]
        \cup [kind : {"invoke"}, cap : {cap}, id : InvokeIds(cap)]

Orderings(S) ==
    {q \in [1..Cardinality(S) -> S] : \A i, j \in 1..Cardinality(S) : q[i] = q[j] => i = j}

RECURSIVE Flatten(_)
Flatten(ss) == IF Len(ss) = 0 THEN <<>> ELSE ss[1] \o Flatten(Tail(ss))

VARIABLES
    store,          \* mcp_servers: id -> [name, is_active]
    transports,     \* the Session Registry: session id -> transport (session index)
    sess,           \* per GET call: [state, sid]
    childClients,   \* per router: definition id -> Client (McpRouter.childClients)
    attempts,       \* per router and definition: the Clients constructed so far
    live,           \* the Clients whose client.connect resolved: <<router, def, j>>
    reqs,           \* the requests dispatched to routers, each with its pc; of each
                    \* also what it saw (the store it read, the cache then), what
                    \* it did (Clients constructed, cache writes, requests sent)
                    \* and the error on its way up, if any
    lastPost,       \* the last POST: [sid, known, status, to]
    gc,             \* per router and definition: the getChildClient calls made
    cap0,           \* the capability category the hub client works with
    cs, cl, cid, cdec, cpc,  \* the codec round trip: inputs, identifier, decoded pair
    processEnv,     \* process.env of the hub: key -> value
    mcpServer,      \* the row getChildClient is given: [type] with env unless it is null
    childTransport  \* the transport getChildClient constructs for it

vars == <<store, transports, sess, childClients, attempts, live, reqs, lastPost, gc, cap0,
          cs, cl, cid, cdec, cpc, processEnv, mcpServer, childTransport>>
envVars == <<processEnv, mcpServer, childTransport>>
codecVars == <<cs, cl, cid, cdec, cpc, processEnv, mcpServer, childTransport>>

IdleReq ==
    [pc |-> "idle", router |-> 0, kind |-> "", cap |-> "", id |-> <<>>,
     server |-> <<>>, local |-> <<>>, active |-> <<>>, i |-> 0,
     result |-> <<>>, answered |-> <<>>, failed |-> <<>>,
     target |-> "", client |-> 0, raised |-> "", outcome |-> "", args |-> NoArgs,
     seen |-> <<>>, cached |-> {}, created |-> 0, wrote |-> 0, forwards |-> <<>>]

NoPost == [sid |-> NoParam, known |-> FALSE, status |-> 0, to |-> 0]

HubInit ==
    /\ store = InitStore
    /\ transports = <<>>
    /\ sess = [k \in Routers |-> [state |-> "none", sid |-> ""]]
    /\ childClients = [k \in Routers |-> <<>>]
    /\ attempts = [k \in Routers |-> [d \in DefIds |-> 0]]
    /\ live = {}
    /\ reqs = [n \in ReqIds |-> IdleReq]
    /\ lastPost = NoPost
    /\ gc = [k \in Routers |-> [d \in DefIds |-> [busy |-> 0, overlap |-> FALSE, ret |-> <<>>]]]

NoTransport == [kind |-> "none"]

EnvIdle ==
    /\ processEnv = <<>>
    /\ mcpServer = [type |-> "stdio"]
    /\ childTransport = NoTransport

CodecIdle ==
    /\ EnvIdle
    /\ cs = <<>> /\ cl = <<>> /\ cid = <<>>
    /\ cdec = [server |-> <<>>, local |-> <<>>]
    /\ cpc = "off"

Init == HubInit /\ cap0 \in Caps /\ CodecIdle

\* ------------------------------------------------------ store actions
\* toggleServer(id, is_active): update({is_active}).eq("id", id)
toggleServer(id, is_active) ==
    /\ store' = [store EXCEPT ![id].is_active = is_active]
    /\ UNCHANGED <<transports, sess, childClients, attempts, live, reqs, lastPost, gc, cap0>>
    /\ UNCHANGED codecVars

\* slugify, step by step.  "e^" stands for a precomposed accented letter and
\* "^" for the combining mark normalize('NFD') splits off it
Decompose(c) == IF c = "e^" THEN <<"e", "^">> ELSE <<c>>

RECURSIVE NormalizeNFD(_)
NormalizeNFD(t) == IF Len(t) = 0 THEN <<>> ELSE Decompose(Head(t)) \o NormalizeNFD(Tail(t))

IsMark(c) == c = "^"
IsSpace(c) == c = " "
IsWordOrDash(c) == c \in {"a", "b", "e", "B", "_", "-"}
LowerChar(c) == IF c = "B" THEN "b" ELSE c

\* .replace(/[\u0300-\u036f]/g, '')
StripMarks(t) == SelectSeq(t, LAMBDA c : ~IsMark(c))

\* .toLowerCase()
ToLowerCase(t) == [i \in 1..Len(t) |-> LowerChar(t[i])]

\* .trim()
RECURSIVE TrimStart(_)
TrimStart(t) == IF Len(t) > 0 /\ IsSpace(Head(t)) THEN TrimStart(Tail(t)) ELSE t
RECURSIVE TrimEnd(_)
TrimEnd(t) ==
    IF Len(t) > 0 /\ IsSpace(t[Len(t)]) THEN TrimEnd(SubSeq(t, 1, Len(t) - 1)) ELSE t
Trim(t) == TrimEnd(TrimStart(t))

\* .replace(/c+/g, to): every maximal run of c becomes one `to`
RECURSIVE CollapseRuns(_, _, _)
CollapseRuns(t, c, to) ==
    IF Len(t) = 0 THEN <<>>
    ELSE IF Head(t) # c THEN <<Head(t)>> \o CollapseRuns(Tail(t), c, to)
    ELSE IF Len(t) > 1 /\ t[2] = c THEN CollapseRuns(Tail(t), c, to)
    ELSE <<to>> \o CollapseRuns(Tail(t), c, to)

\* .replace(/[^\w-]+/g, '')
KeepWordAndDash(t) == SelectSeq(t, IsWordOrDash)

\* slugify: /--+/ leaves a single "-" as it is, so collapsing every run of
\* "-" to one "-" is what the last replace does
slugify(text) ==
    CollapseRuns(KeepWordAndDash(CollapseRuns(Trim(ToLowerCase(StripMarks(
        NormalizeNFD(text)))), " ", "-")), "-", "-")

\* if (server.name) server.name = slugify(server.name): a missing and an
\* empty name are left as they are
SlugName(server) ==
    IF "name" \in DOMAIN server /\ server.name # <<>>
    THEN [server EXCEPT !.name = slugify(server.name)]
    ELSE server

\* name TEXT NOT NULL UNIQUE: a row d may take the name
NameFree(st, d, name) == \A e \in DOMAIN st \ {d} : st[e].name # name

\* the columns of the patch over the columns of the row
Merge(row, patch) ==
    [f \in DOMAIN row |-> IF f \in DOMAIN patch THEN patch[f] ELSE row[f]]

\* createServer(server): slugify the name, insert the row; the store gives
\* it an id no row has and is_active = true unless told otherwise.  A missing
\* or a taken name is an error of the store, which createServer throws
createServer(server) ==
    LET row == Merge([name |-> <<>>, is_active |-> TRUE], SlugName(server))
    IN  /\ DOMAIN store # DefIds
        /\ IF "name" \in DOMAIN server /\ NameFree(store, "", row.name)
           THEN store' = (CHOOSE d \in DefIds : d \notin DOMAIN store) :> row @@ store
           ELSE UNCHANGED store
        /\ UNCHANGED <<transports, sess, childClients, attempts, live, reqs, lastPost, gc, cap0>>
        /\ UNCHANGED codecVars

\* updateServer(id, server): slugify the name if there is one, update the
\* row; a taken name or no such row is an error, which updateServer throws
updateServer(id, server) ==
    LET patch == SlugName(server)
    IN  /\ IF /\ id \in DOMAIN store
              /\ "name" \in DOMAIN patch => NameFree(store, id, patch.name)
           THEN store' = [store EXCEPT ![id] = Merge(@, patch)]
           ELSE UNCHANGED store
        /\ UNCHANGED <<transports, sess, childClients, attempts, live, reqs, lastPost, gc, cap0>>
        /\ UNCHANGED codecVars

\* deleteServer(id): delete().eq("id", id)
deleteServer(id) ==
    /\ store' = [d \in DOMAIN store \ {id} |-> store[d]]
    /\ UNCHANGED <<transports, sess, childClients, attempts, live, reqs, lastPost, gc, cap0>>
    /\ UNCHANGED codecVars

\* ---------------------------------------------------- session endpoints
\* GET, up to its first await: new McpRouter(), a random session id, a new
\* transport, transports.set(sessionId, transport)
GetRegister(k, sid) ==
    /\ sess[k].state = "none"
    /\ \A j \in 1..(k - 1) : sess[j].state # "none"
    /\ sess' = [sess EXCEPT ![k] = [state |-> "opening", sid |-> sid]]
    /\ transports' = (sid :> k) @@ transports
    /\ UNCHANGED <<store, childClients, attempts, live, reqs, lastPost, gc, cap0>>
    /\ UNCHANGED codecVars

\* await router.getMcpServer().connect(transport) resolves; handleSSE returns the stream
GetConnectOk(k) ==
    /\ sess[k].state = "opening"
    /\ sess' = [sess EXCEPT ![k].state = "open"]
    /\ UNCHANGED <<store, transports, childClients, attempts, live, reqs, lastPost, gc, cap0>>
    /\ UNCHANGED codecVars

\* await router.getMcpServer().connect(transport) rejects: GET throws
GetConnectFail(k) ==
    /\ sess[k].state = "opening"
    /\ sess' = [sess EXCEPT ![k].state = "failed"]
    /\ UNCHANGED <<store, transports, childClients, attempts, live, reqs, lastPost, gc, cap0>>
    /\ UNCHANGED codecVars

\* the client goes away: the stream of an open session closes.  No code of
\* GET or of the router runs on it
StreamClose(k) ==
    /\ sess[k].state = "open"
    /\ sess' = [sess EXCEPT ![k].state = "closed"]
    /\ UNCHANGED <<store, transports, childClients, attempts, live, reqs, lastPost, gc, cap0>>
    /\ UNCHANGED codecVars

\* PostCheck without its second early return
PostCheck_NoNotFound(sid, reg) ==
    IF sid = NoParam \/ sid = "" THEN 400 ELSE 0

\* transports.get(sessionId): 0 stands for undefined
Lookup(reg, sid) == IF sid \in DOMAIN reg THEN reg[sid] ELSE 0

\* POST's early returns: the status it answers with, 0 when it goes on.
\* !sessionId holds for an absent parameter and for the empty string
PostCheck(sid, reg) ==
    IF sid = NoParam \/ sid = "" THEN 400
    ELSE IF Lookup(reg, sid) = 0 THEN 404
    ELSE 0

\* a handler up to its first await: the invocation handlers decode the
\* identifier before they read the store
NewReq(k, msg) ==
    LET dec == IF msg.kind = "list" THEN [server |-> <<>>, local |-> <<>>]
               ELSE IF msg.cap = "resources" THEN DecodeUri(msg.id)
               ELSE DecodeName(msg.id)
    IN  [IdleReq EXCEPT !.pc = "getActive", !.router = k, !.kind = msg.kind,
                        !.cap = msg.cap, !.id = msg.id,
                        !.args = IF "arguments" \in DOMAIN msg THEN msg.arguments ELSE NoArgs,
                        !.server = dec.server, !.local = dec.local]

\* POST /api/mcp/message?sessionId=...: handlePostMessage of a transport whose
\* stream is established hands the message to the router's handler and the
\* route answers 202; on a transport with no established stream it throws
POST(sid, msg) ==
    LET early == PostCheck(sid, transports)
        k == Lookup(transports, sid)
        known == sid \in DOMAIN transports
    IN  /\ IF early # 0
           THEN /\ lastPost' = [sid |-> sid, known |-> known, status |-> early, to |-> 0]
                /\ UNCHANGED reqs
           ELSE IF k \in Routers /\ sess[k].state = "open"
           THEN /\ \E n \in ReqIds : reqs[n].pc = "idle"
                /\ LET n == CHOOSE n \in ReqIds :
                               reqs[n].pc = "idle" /\ \A j \in 1..(n - 1) : reqs[j].pc # "idle"
                   IN  reqs' = [reqs EXCEPT ![n] = NewReq(k, msg)]
                /\ lastPost' = [sid |-> sid, known |-> known, status |-> 202, to |-> k]
           ELSE /\ lastPost' = [sid |-> sid, known |-> known, status |-> 500, to |-> k]
                /\ UNCHANGED reqs
        /\ UNCHANGED <<store, transports, sess, childClients, attempts, live, gc, cap0>>
        /\ UNCHANGED codecVars

\* ------------------------------------------------------------- router
\* getActiveServers without .eq("is_active", true)
getActiveServers_All(st) == DefIds

\* getActiveServers answering with no row
getActiveServers_None(st) == {}

\* getActiveServers: select * from mcp_servers where is_active
getActiveServers(st) == {d \in DefIds : st[d].is_active}

\* FindTarget falling back on the first row when no name matches
FindTarget_OrFirst(active, name) ==
    IF \E i \in 1..Len(active) : active[i].name = name
    THEN active[CHOOSE i \in 1..Len(active) :
                    /\ active[i].name = name
                    /\ \A j \in 1..(i - 1) : active[j].name # name].id
    ELSE IF Len(active) > 0 THEN active[1].id ELSE ""

\* activeServers.find(s => s.name === serverName): "" stands for undefined
FindTarget(active, name) ==
    IF \E i \in 1..Len(active) : active[i].name = name
    THEN active[CHOOSE i \in 1..Len(active) :
                    /\ active[i].name = name
                    /\ \A j \in 1..(i - 1) : active[j].name # name].id
    ELSE ""

\* CacheHas that never finds an entry
CacheHas_Never(cache, d) == FALSE

\* CacheAfterFailure with childClients.set moved before the await
CacheAfterFailure_Set(cache, d, c) == (d :> c) @@ cache

\* childClients.has(id) / childClients.set(id, client)
CacheHas(cache, d) == d \in DOMAIN cache
CacheSet(cache, d, c) == (d :> c) @@ cache

\* client.connect rejected: getChildClient throws before childClients.set
CacheAfterFailure(cache, d, c) == cache

RECURSIVE Reverse(_)
Reverse(q) == IF Len(q) = 0 THEN <<>> ELSE Reverse(Tail(q)) \o <<Head(q)>>

\* PushAll appending the items last to first
PushAll_Reversed(all, items) == all \o Reverse(items)

\* allTools.push(...namespacedTools)
PushAll(all, items) == all \o items

\* the name or uri an aggregated item is listed under
Namespaced(cap, serverName, item) ==
    IF cap = "resources" THEN EncodeUri(serverName, item)
    ELSE EncodeName(serverName, item)

CurDef(r) == IF r.kind = "list" THEN r.active[r.i].id ELSE r.target
CurName(r) == IF r.kind = "list" THEN r.active[r.i].name ELSE r.server

\* the for loop of a list handler goes to its next server, or returns
Advance(r) ==
    IF r.i < Len(r.active)
    THEN [r EXCEPT !.i = r.i + 1, !.pc = "getClient", !.client = 0]
    ELSE [r EXCEPT !.pc = "done", !.outcome = "ok", !.client = 0]

\* ListCatch without the try: the first failing upstream fails the call
ListCatch_Rethrow(r, d) ==
    [r EXCEPT !.failed = Append(@, d), !.pc = "done", !.outcome = "upstreamerr", !.client = 0]

\* catch (error) { console.error(...) } inside the loop: the error ends here
ListCatch(r, d) == Advance([r EXCEPT !.failed = Append(@, d), !.raised = ""])

\* InvokeThrow with the error replaced by one of the hub's own
InvokeThrow_Translate(r, what) ==
    [r EXCEPT !.pc = "done", !.outcome = "internalerr", !.client = 0]

\* an awaited call rejects with error e, which propagates until it is caught
Reject(r, e) == [r EXCEPT !.raised = e]

\* an invocation handler has no try: the error is the request's failure
InvokeThrow(r, what) == [r EXCEPT !.pc = "done", !.outcome = what, !.client = 0]

OnFailure(r, d, what) ==
    IF r.kind = "list" THEN ListCatch(r, d) ELSE InvokeThrow(r, what)

\* what the upstream of d answers to an invocation it received
UpstreamReply(d, cap, local, args) == [from |-> d, cap |-> cap, local |-> local, args |-> args]

\* the arguments a handler passes on: a list sends {}, read resource only
\* the uri, call tool and get prompt request.params.arguments
PassedArgs(r) == IF r.kind = "list" \/ r.cap = "resources" THEN NoArgs ELSE r.args

\* Forward sending the identifier as the hub client wrote it
Forward_WholeId(r, c) ==
    [r EXCEPT !.client = c, !.pc = "request",
              !.forwards = Append(@, [conn |-> c, def |-> CurDef(r), local |-> r.id,
                                      args |-> PassedArgs(r)])]

\* client.request(...): the request goes out on Client c of (router, def)
Forward(r, c) ==
    [r EXCEPT !.client = c, !.pc = "request",
              !.forwards = Append(@, [conn |-> c, def |-> CurDef(r),
                                      local |-> IF r.kind = "list" THEN <<>> ELSE r.local,
                                      args |-> PassedArgs(r)])]

\* getChildClient runs in the same turn as the code before it, up to its
\* await.  For a request r about to call it (pc = "getClient"): a cached
\* client is returned and the request sent on it; otherwise a Client and its
\* transport are constructed and client.connect starts.  The three operators
\* give the request, the Clients constructed and the record of calls after it
Calling(r) == r.pc = "getClient"

EnterReq(r, cache, att) ==
    IF ~Calling(r) THEN r
    ELSE IF CacheHas(cache[r.router], CurDef(r))
    THEN Forward(r, cache[r.router][CurDef(r)])
    ELSE [r EXCEPT !.client = att[r.router][CurDef(r)] + 1, !.pc = "connecting",
                   !.created = @ + 1]

EnterAttempts(r, cache, att) ==
    IF Calling(r) /\ ~CacheHas(cache[r.router], CurDef(r))
    THEN [att EXCEPT ![r.router][CurDef(r)] = @ + 1]
    ELSE att

EnterCalls(r, cache, g) ==
    IF ~Calling(r) THEN g
    ELSE LET k == r.router
             d == CurDef(r)
         IN  IF CacheHas(cache[k], d)
             THEN [g EXCEPT ![k][d] =
                     [@ EXCEPT !.overlap = @ \/ g[k][d].busy > 0,
                               !.ret = Append(@, [conn |-> cache[k][d], hs |-> 0])]]
             ELSE [g EXCEPT ![k][d] =
                     [@ EXCEPT !.overlap = @ \/ g[k][d].busy > 0, !.busy = @ + 1]]

\* await this.getActiveServers() resolves with the rows; a list handler
\* enters its loop, an invocation handler looks its target up
GetActiveServersOk(n, order) ==
    LET r == [reqs[n] EXCEPT !.seen = store, !.cached = DOMAIN childClients[reqs[n].router]]
        active == [i \in 1..Len(order) |-> [id |-> order[i], name |-> store[order[i]].name]]
        t == FindTarget(active, r.server)
        next == IF r.kind = "list"
                THEN IF Len(active) = 0
                     THEN [r EXCEPT !.active = active, !.pc = "done", !.outcome = "ok"]
                     ELSE [r EXCEPT !.active = active, !.i = 1, !.pc = "getClient"]
                ELSE IF t = ""
                     THEN [r EXCEPT !.pc = "done", !.outcome = "notfound"]
                     ELSE [r EXCEPT !.target = t, !.pc = "getClient"]
    IN  /\ reqs[n].pc = "getActive"
        /\ order \in Orderings(getActiveServers(store))
        /\ reqs' = [reqs EXCEPT ![n] = EnterReq(next, childClients, attempts)]
        /\ attempts' = EnterAttempts(next, childClients, attempts)
        /\ gc' = EnterCalls(next, childClients, gc)
        /\ UNCHANGED <<store, transports, sess, childClients, live, lastPost, cap0>>
        /\ UNCHANGED codecVars

\* StoreThrow as `return []` on an error: the handler goes on with no rows
StoreThrow_NoRows(r) ==
    IF r.kind = "list"
    THEN [Reject(r, "storeerr") EXCEPT !.pc = "done", !.outcome = "ok"]
    ELSE [Reject(r, "storeerr") EXCEPT !.pc = "done", !.outcome = "notfound"]

\* if (error) throw error, in a handler that has no try around the call
StoreThrow(r) == [Reject(r, "storeerr") EXCEPT !.pc = "done", !.outcome = "storeerr"]

\* the store answers with an error: getActiveServers throws, and no handler
\* catches it
GetActiveServersErr(n) ==
    /\ reqs[n].pc = "getActive"
    /\ reqs' = [reqs EXCEPT ![n] = StoreThrow(@)]
    /\ UNCHANGED <<store, transports, sess, childClients, attempts, live, lastPost, gc, cap0>>
    /\ UNCHANGED codecVars

\* await client.connect(transport) resolves: childClients.set, return client,
\* and the caller sends its request
ConnectOk(n) ==
    LET r == reqs[n]
        k == r.router
        d == CurDef(r)
        c == r.client
    IN  /\ r.pc = "connecting"
        /\ live' = live \cup {<<k, d, c>>}
        /\ childClients' = [childClients EXCEPT ![k] = CacheSet(@, d, c)]
        /\ reqs' = [reqs EXCEPT ![n] = Forward([r EXCEPT !.wrote = @ + 1], c)]
        /\ gc' = [gc EXCEPT ![k][d] =
                    [@ EXCEPT !.busy = @ - 1, !.ret = Append(@, [conn |-> c, hs |-> 1])]]
        /\ UNCHANGED <<store, transports, sess, attempts, lastPost, cap0>>
        /\ UNCHANGED codecVars

\* await client.connect(transport) rejects (spawn, connect or handshake
\* error): a list handler catches it and goes on, an invocation fails
ConnectFail(n) ==
    LET r == reqs[n]
        k == r.router
        d == CurDef(r)
        c == r.client
        cache == [childClients EXCEPT ![k] = CacheAfterFailure(@, d, c)]
        left == [gc EXCEPT ![k][d] = [@ EXCEPT !.busy = @ - 1]]
        next == OnFailure(Reject(r, "connecterr"), d, "connecterr")
    IN  /\ r.pc = "connecting"
        /\ childClients' = cache
        /\ reqs' = [reqs EXCEPT ![n] = EnterReq(next, cache, attempts)]
        /\ attempts' = EnterAttempts(next, cache, attempts)
        /\ gc' = EnterCalls(next, cache, left)
        /\ UNCHANGED <<store, transports, sess, live, lastPost, cap0>>
        /\ UNCHANGED codecVars

\* await client.request(...) resolves with the upstream's answer: a list
\* handler namespaces and appends the items and goes on, an invocation
\* returns the answer
RequestOk(n) ==
    LET r == reqs[n]
        d == CurDef(r)
        items == UpstreamItems(d, r.cap)
        namespaced == [j \in 1..Len(items) |-> Namespaced(r.cap, CurName(r), items[j])]
        next == IF r.kind = "list"
                THEN Advance([r EXCEPT !.result = PushAll(@, namespaced),
                                       !.answered = Append(@, d)])
                ELSE LET sent == r.forwards[Len(r.forwards)]
                     IN  [r EXCEPT !.pc = "done", !.outcome = "ok", !.answered = Append(@, d),
                                   !.result = <<UpstreamReply(d, r.cap, sent.local, sent.args)>>]
    IN  /\ r.pc = "request"
        /\ reqs' = [reqs EXCEPT ![n] = EnterReq(next, childClients, attempts)]
        /\ attempts' = EnterAttempts(next, childClients, attempts)
        /\ gc' = EnterCalls(next, childClients, gc)
        /\ UNCHANGED <<store, transports, sess, childClients, live, lastPost, cap0>>
        /\ UNCHANGED codecVars

\* await client.request(...) rejects: the upstream answers with an error
RequestErr(n) ==
    LET r == reqs[n]
        next == OnFailure(Reject(r, "upstreamerr"), CurDef(r), "upstreamerr")
    IN  /\ r.pc = "request"
        /\ reqs' = [reqs EXCEPT ![n] = EnterReq(next, childClients, attempts)]
        /\ attempts' = EnterAttempts(next, childClients, attempts)
        /\ gc' = EnterCalls(next, childClients, gc)
        /\ UNCHANGED <<store, transports, sess, childClients, live, lastPost, cap0>>
        /\ UNCHANGED codecVars

RouterStep ==
    \/ \E n \in ReqIds, order \in Orderings(getActiveServers(store)) : GetActiveServersOk(n, order)
    \/ \E n \in ReqIds : GetActiveServersErr(n)
    \/ \E n \in ReqIds : ConnectOk(n)
    \/ \E n \in ReqIds : ConnectFail(n)
    \/ \E n \in ReqIds : RequestOk(n)
    \/ \E n \in ReqIds : RequestErr(n)

\* One hub session under load: the session opens, its client posts any two
\* messages of one capability category, the dashboard toggles definitions at
\* any time, every upstream answers or fails each time it is asked
Next ==
    \/ \E d \in DefIds, b \in BOOLEAN : toggleServer(d, b)
    \/ GetRegister(1, "k1")
    \/ GetConnectOk(1)
    \/ \E sid \in DOMAIN transports, msg \in Msgs(cap0) : POST(sid, msg)
    \/ RouterStep

Spec == Init /\ [][Next]_vars

\* Several hub sessions, each with its own router, over a store that is left
\* alone: the sessions open under distinct ids and stay open
NextRouters ==
    \/ \E k \in Routers : GetRegister(k, IF k = 1 THEN "k1" ELSE "k2")
    \/ \E k \in Routers : GetConnectOk(k)
    \/ \E sid \in DOMAIN transports, msg \in Msgs(cap0) : POST(sid, msg)
    \/ RouterStep

SpecRouters == Init /\ [][NextRouters]_vars

\* The session endpoints: sessions open under any id, fail to open and
\* close; posts carry any session id or none, and a tool call
SessionMsgs == [kind : {"invoke"}, cap : {"tools"}, id : {EncodeName(<<"a">>, <<"b">>)}]

InitSessions == HubInit /\ cap0 = "tools" /\ CodecIdle

NextSessions ==
    \/ \E k \in Routers, sid \in SessionIds : GetRegister(k, sid)
    \/ \E k \in Routers : GetConnectOk(k)
    \/ \E k \in Routers : GetConnectFail(k)
    \/ \E k \in Routers : StreamClose(k)
    \/ \E sid \in SessionIds \cup {NoParam}, msg \in SessionMsgs : POST(sid, msg)
    \/ RouterStep

SpecSessions == InitSessions /\ [][NextSessions]_vars

\* One hub session whose client calls tools or gets prompts under
\* identifiers of any shape: with and without the separator, for names that
\* are and that are not a definition's
OddIds ==
    {<<"a">>, <<"z">>, EncodeName(<<"a">>, <<"b">>), EncodeName(<<"a">>, <<>>),
     EncodeName(<<"a">>, <<"_", "b">>)}

IdMsgs(cap) == [kind : {"invoke"}, cap : {cap}, id : OddIds]

InitIds == HubInit /\ cap0 \in {"tools", "prompts"} /\ CodecIdle

NextIds ==
    \/ GetRegister(1, "k1")
    \/ GetConnectOk(1)
    \/ \E sid \in DOMAIN transports, msg \in IdMsgs(cap0) : POST(sid, msg)
    \/ RouterStep

SpecIds == InitIds /\ [][NextIds]_vars

\* One hub session while the dashboard renames definition d1 back and
\* forth: the client invokes under the old and under the new name
RenameInputs == {<<"B">>, <<"a">>}

RenameIds(cap) ==
    IF cap = "resources"
    THEN {EncodeUri(s, <<"x">>) : s \in {<<"a">>, <<"b">>}}
    ELSE {EncodeName(s, <<"b">>) : s \in {<<"a">>, <<"b">>}}

RenameMsgs(cap) == [kind : {"invoke"}, cap : {cap}, id : RenameIds(cap)]

NextRename ==
    \/ \E name \in RenameInputs : updateServer("d1", [name |-> name])
    \/ GetRegister(1, "k1")
    \/ GetConnectOk(1)
    \/ \E sid \in DOMAIN transports, msg \in RenameMsgs(cap0) : POST(sid, msg)
    \/ RouterStep

SpecRename == Init /\ [][NextRename]_vars

\* One hub session whose client lists, with upstreams that answer or fail
\* in the end and upstreams that may stay silent for ever.  The store
\* answers every read; the upstream of a definition in Responsive settles
\* every connect and every request it is sent, the others need not
Responsive == {"d1"}

ListMsgs(cap) == [kind : {"list"}, cap : {cap}, id : {<<>>}]

NextHang ==
    \/ GetRegister(1, "k1")
    \/ GetConnectOk(1)
    \/ \E sid \in DOMAIN transports, msg \in ListMsgs(cap0) : POST(sid, msg)
    \/ RouterStep

StoreAnswers(n) ==
    \/ \E order \in Orderings(getActiveServers(store)) : GetActiveServersOk(n, order)
    \/ GetActiveServersErr(n)

UpstreamSettles(n) ==
    /\ reqs[n].pc \in {"connecting", "request"}
    /\ CurDef(reqs[n]) \in Responsive
    /\ (ConnectOk(n) \/ ConnectFail(n) \/ RequestOk(n) \/ RequestErr(n))

SpecHang ==
    /\ Init /\ [][NextHang]_vars
    /\ \A n \in ReqIds : WF_vars(StoreAnswers(n)) /\ WF_vars(UpstreamSettles(n))

\* One hub session whose client invokes with arguments: identifiers that
\* reach d1, that reach d2 and that reach nothing
FwdMsgs(cap) ==
    IF cap = "resources"
    THEN [kind : {"invoke"}, cap : {cap},
          id : {EncodeUri(s, u) : s \in {<<"a">>, <<"a", "_">>, <<"z">>},
                                  u \in {<<"x">>, <<>>}}]
    ELSE [kind : {"invoke"}, cap : {cap}, arguments : {"v", "w"},
          id : {EncodeName(<<"a">>, <<"b">>), EncodeName(<<"a">>, <<"_", "b">>),
                EncodeName(<<"z">>, <<"b">>)}]

NextForward ==
    \/ GetRegister(1, "k1")
    \/ GetConnectOk(1)
    \/ \E sid \in DOMAIN transports, msg \in FwdMsgs(cap0) : POST(sid, msg)
    \/ RouterStep

SpecForward == Init /\ [][NextForward]_vars

\* The dashboard by itself: rows are created, renamed, toggled and deleted
\* with any name the form lets through
MaxNameLen == 2
NameChars == {"B", "_", "-", " ", "!", "e^"}
NameInputs == UNION {[1..m -> NameChars] : m \in 0..MaxNameLen}

NextStore ==
    \/ \E name \in NameInputs : createServer([name |-> name])
    \/ \E id \in DefIds, name \in NameInputs : updateServer(id, [name |-> name])
    \/ \E id \in DefIds : deleteServer(id)

SpecStore == InitSessions /\ [][NextStore]_vars

\* ------------------------------------------------- the codec by itself
Chars == {"a", "_"}
StringsUpTo(n) == UNION {[1..m -> Chars] : m \in 0..n}
HasSep(s) == IndexOf(s, SEP) # 0

InitCodec ==
    /\ HubInit /\ cap0 = "tools"
    /\ cs \in StringsUpTo(MaxCodecLen)
    /\ cl \in StringsUpTo(MaxCodecLen)
    /\ cid = <<>>
    /\ cdec = [server |-> <<>>, local |-> <<>>]
    /\ cpc = "encode"
    /\ EnvIdle

\* the list handler names the item
CodecEncode ==
    /\ cpc = "encode"
    /\ cid' = EncodeName(cs, cl)
    /\ cpc' = "decode"
    /\ UNCHANGED <<cs, cl, cdec>>
    /\ UNCHANGED envVars
    /\ UNCHANGED <<store, transports, sess, childClients, attempts, live, reqs, lastPost, gc, cap0>>

\* the invocation handler takes the identifier apart
CodecDecode ==
    /\ cpc = "decode"
    /\ cdec' = DecodeName(cid)
    /\ cpc' = "done"
    /\ UNCHANGED <<cs, cl, cid>>
    /\ UNCHANGED envVars
    /\ UNCHANGED <<store, transports, sess, childClients, attempts, live, reqs, lastPost, gc, cap0>>

NextCodec == CodecEncode \/ CodecDecode

SpecCodec == InitCodec /\ [][NextCodec]_vars

\* ------------------------------------ the resource locator by itself
MaxUriLen == 2
UriChars == {"x", "/"}

\* what an upstream may report as a resource's uri: short strings, and
\* locators that themselves hold the hub's prefix for the server
ShortUris == UNION {[1..m -> UriChars] : m \in 0..MaxUriLen}
LocalUris(s) ==
    ShortUris \cup {EncodeUri(s, v) : v \in ShortUris}
              \cup {<<"x">> \o EncodeUri(s, v) : v \in ShortUris}

InitUri ==
    /\ HubInit /\ cap0 = "resources"
    /\ cs \in StringsUpTo(MaxUriLen)
    /\ cl \in LocalUris(cs)
    /\ cid = <<>>
    /\ cdec = [server |-> <<>>, local |-> <<>>]
    /\ cpc = "encode"
    /\ EnvIdle

\* the list-resources handler builds the locator
UriEncode ==
    /\ cpc = "encode"
    /\ cid' = EncodeUri(cs, cl)
    /\ cpc' = "decode"
    /\ UNCHANGED <<cs, cl, cdec>>
    /\ UNCHANGED envVars
    /\ UNCHANGED <<store, transports, sess, childClients, attempts, live, reqs, lastPost, gc, cap0>>

\* the read-resource handler takes it apart
UriDecode ==
    /\ cpc = "decode"
    /\ cdec' = DecodeUri(cid)
    /\ cpc' = "done"
    /\ UNCHANGED <<cs, cl, cid>>
    /\ UNCHANGED envVars
    /\ UNCHANGED <<store, transports, sess, childClients, attempts, live, reqs, lastPost, gc, cap0>>

NextUri == UriEncode \/ UriDecode

SpecUri == InitUri /\ [][NextUri]_vars

\* --------------------------------------- the upstream's transport by itself
EnvKeys == {"PATH", "HOME", "KEY"}
EnvValues == {"p", "q"}
Envs == UNION {[K -> EnvValues] : K \in SUBSET EnvKeys}

\* Overlay with the process environment spread last
Overlay_ProcessWins(base, over) ==
    [key \in DOMAIN base \cup DOMAIN over |->
        IF key \in DOMAIN base THEN base[key] ELSE over[key]]

\* { ...base, ...over }
Overlay(base, over) ==
    [key \in DOMAIN base \cup DOMAIN over |->
        IF key \in DOMAIN over THEN over[key] ELSE base[key]]

\* spreading null or undefined adds nothing
ServerEnv(row) == IF "env" \in DOMAIN row THEN row.env ELSE <<>>

InitEnv ==
    /\ HubInit /\ cap0 = "tools"
    /\ cs = <<>> /\ cl = <<>> /\ cid = <<>>
    /\ cdec = [server |-> <<>>, local |-> <<>>]
    /\ cpc = "off"
    /\ processEnv \in Envs
    /\ mcpServer \in [type : {"stdio", "sse"}, env : Envs] \cup [type : {"stdio", "sse"}]
    /\ childTransport = NoTransport

\* getChildClient from new Client(...) to the transport it connects with
NewTransport ==
    /\ childTransport = NoTransport
    /\ childTransport' =
          IF mcpServer.type = "sse" THEN [kind |-> "sse"]
          ELSE [kind |-> "stdio", env |-> Overlay(processEnv, ServerEnv(mcpServer))]
    /\ UNCHANGED <<processEnv, mcpServer>>
    /\ UNCHANGED <<cs, cl, cid, cdec, cpc>>
    /\ UNCHANGED <<store, transports, sess, childClients, attempts, live, reqs, lastPost, gc, cap0>>

NextEnv == NewTransport

SpecEnv == InitEnv /\ [][NextEnv]_vars

\* ------------------------------------------------------------ claims
Range(q) == {q[i] : i \in 1..Len(q)}
IsDone(r, kind) == r.kind = kind /\ r.pc = "done" /\ r.outcome # "storeerr"

\* the items of definition d as the hub lists them: the name it had when
\* the store was read, the separator, the upstream's own identifier
ListedItems(r, d) ==
    LET items == UpstreamItems(d, r.cap)
    IN  [j \in 1..Len(items) |->
            IF r.cap = "resources"
            THEN <<"m", "c", "p", ":", "/", "/">> \o r.seen[d].name \o <<"/">> \o items[j]
            ELSE r.seen[d].name \o <<"_", "_">> \o items[j]]

\* C1: a list operation that read the enabled set succeeds whatever its
\* upstreams did: every enabled definition was asked once and either
\* answered or failed, and the result is exactly the namespaced items of
\* those that answered, server by server
C1_ListPartialResults ==
    \A n \in ReqIds :
        LET r == reqs[n]
        IN  IsDone(r, "list") =>
              /\ r.outcome = "ok"
              /\ Range(r.answered) \cup Range(r.failed) = {d \in DefIds : r.seen[d].is_active}
              /\ Len(r.answered) + Len(r.failed) = Cardinality({d \in DefIds : r.seen[d].is_active})
              /\ r.result = Flatten([i \in 1..Len(r.answered) |-> ListedItems(r, r.answered[i])])

\* a list that finished with one upstream answering and one failing
C1_Witness ==
    \E n \in ReqIds :
        /\ IsDone(reqs[n], "list")
        /\ Len(reqs[n].answered) = 1
        /\ Len(reqs[n].failed) = 1
        /\ reqs[n].result # <<>>

NoEnabledMatch(r) == ~\E d \in DefIds : r.seen[d].is_active /\ r.seen[d].name = r.server

\* C2: an invocation whose decoded server name matched no enabled
\* definition when the store was read fails with server-not-found, and it
\* constructed no Client, wrote nothing to the cache and sent nothing
C2_UnknownServerTouchesNothing ==
    \A n \in ReqIds :
        LET r == reqs[n]
        IN  (IsDone(r, "invoke") /\ NoEnabledMatch(r)) =>
              /\ r.outcome = "notfound"
              /\ r.created = 0
              /\ r.wrote = 0
              /\ r.forwards = <<>>

\* an invocation for a name no definition has, enabled or not, refused
\* while both definitions were enabled
C2_Witness ==
    \E n \in ReqIds :
        /\ IsDone(reqs[n], "invoke")
        /\ reqs[n].server = <<"z">>
        /\ \A d \in DefIds : reqs[n].seen[d].is_active
        /\ reqs[n].outcome = "notfound"

DisabledButCached(r) ==
    \E d \in DefIds : /\ ~r.seen[d].is_active
                      /\ r.seen[d].name = r.server
                      /\ d \in r.cached

\* C3: an invocation that finds its target disabled fails with
\* server-not-found and sends nothing upstream, although the router held a
\* cached connection for that definition when the invocation read the store
C3_DisabledNotForwarded ==
    \A n \in ReqIds :
        LET r == reqs[n]
        IN  (IsDone(r, "invoke") /\ DisabledButCached(r)) =>
              (r.outcome = "notfound" /\ r.forwards = <<>>)

\* two invocations of one session for the same name: the first was served
\* by the upstream, the definition was disabled, the second was refused
C3_Witness ==
    /\ IsDone(reqs[1], "invoke") /\ reqs[1].outcome = "ok"
    /\ IsDone(reqs[2], "invoke") /\ reqs[2].outcome = "notfound"
    /\ reqs[1].router = reqs[2].router
    /\ reqs[1].server = reqs[2].server
    /\ DisabledButCached(reqs[2])

\* C4: when the getChildClient calls of a router for a definition follow
\* one another (none starts while another is awaiting its connect), every
\* call that returns gives the same Client, the first of them did the one
\* handshake and the later ones did none
C4_SequentialCallsShareConnection ==
    \A k \in Routers, d \in DefIds :
        LET g == gc[k][d]
        IN  ~g.overlap =>
              \A i \in 1..Len(g.ret) :
                  /\ g.ret[i].conn = g.ret[1].conn
                  /\ g.ret[i].hs = IF i = 1 THEN 1 ELSE 0

\* two calls, one after the other, that both returned
C4_Witness ==
    \E k \in Routers, d \in DefIds :
        /\ ~gc[k][d].overlap
        /\ Len(gc[k][d].ret) = 2
        /\ store[d].is_active

\* C5, as claimed: the routers of different sessions that hold a connection
\* for a definition hold the same one
C5_SharedAcrossSessions ==
    \A k1, k2 \in Routers, d \in DefIds :
        (d \in DOMAIN childClients[k1] /\ d \in DOMAIN childClients[k2]) =>
            <<k1, d, childClients[k1][d]>> = <<k2, d, childClients[k2][d]>>

Connecting(k, d) ==
    {reqs[n].client : n \in {m \in ReqIds : /\ reqs[m].pc = "connecting"
                                            /\ reqs[m].router = k
                                            /\ CurDef(reqs[m]) = d}}
FailedClients(k, d) ==
    {j \in 1..attempts[k][d] : <<k, d, j>> \notin live /\ j \notin Connecting(k, d)}

\* C6: a Client whose connect was rejected is in no cache; every request is
\* sent on a Client whose handshake succeeded; the rejection reached the
\* caller (an invocation failed with it, a list recorded it for that server)
C6_FailureNotCached ==
    /\ \A k \in Routers, d \in DefIds :
          d \in DOMAIN childClients[k] => childClients[k][d] \notin FailedClients(k, d)
    /\ \A n \in ReqIds :
          LET r == reqs[n]
              rejected == r.created - r.wrote - (IF r.pc = "connecting" THEN 1 ELSE 0)
          IN  /\ r.pc = "request" => <<r.router, CurDef(r), r.client>> \in live
              /\ (r.kind = "invoke" /\ rejected > 0) =>
                    (r.pc = "done" /\ r.outcome = "connecterr")
              /\ r.kind = "list" => rejected <= Len(r.failed)

\* a rejected connect, then a later call for the same definition that found
\* no entry and connected afresh
C6_Witness ==
    \E k \in Routers, d \in DefIds :
        /\ ~gc[k][d].overlap
        /\ 1 \in FailedClients(k, d)
        /\ attempts[k][d] = 2
        /\ d \in DOMAIN childClients[k] /\ childClients[k][d] = 2

\* C7, as claimed: the step that disables a definition leaves no router
\* with a cache entry for it
C7_EvictOnDisable ==
    [][\A d \in DefIds :
          (store[d].is_active /\ ~store'[d].is_active) =>
              \A k \in Routers : d \notin DOMAIN childClients'[k]]_vars

\* C8, as claimed: the step that closes a session's stream removes the
\* session's id from the registry
C8_CloseUnregisters ==
    [][\A k \in Routers :
          (sess[k].state = "open" /\ sess'[k].state = "closed") =>
              sess[k].sid \notin DOMAIN transports']_vars

\* C9: a post with a session id the registry does not hold is answered 404,
\* reaches no transport and changes neither the registry, the sessions nor
\* the requests; 400 answers only a missing session id and 202 only a post
\* handed to a registered transport
C9_UnknownSessionIs404 ==
    /\ [](/\ (lastPost.sid \notin {NoParam, ""} /\ ~lastPost.known) =>
                (lastPost.status = 404 /\ lastPost.to = 0)
          /\ lastPost.status = 400 => lastPost.sid \in {NoParam, ""}
          /\ lastPost.status = 202 => (lastPost.known /\ lastPost.to \in Routers))
    /\ [][(lastPost' # lastPost /\ lastPost'.status = 404) =>
              UNCHANGED <<transports, sess, reqs, childClients>>]_vars

\* a post for an id nobody holds, while another session is open
C9_Witness ==
    /\ lastPost.status = 404
    /\ lastPost.sid = "k2"
    /\ \E k \in Routers : sess[k].state = "open" /\ sess[k].sid = "k1"

\* C10, as claimed: a server name without the separator and any local name
\* come back from the identifier built of them
C10_NameRoundTrip ==
    (cpc = "done" /\ ~HasSep(cs)) => cdec = [server |-> cs, local |-> cl]

\* C11: a server name and any local uri, the empty one and one that holds
\* the hub's own prefix for that server included, come back from the
\* locator built of them
C11_UriRoundTrip ==
    cpc = "done" => (cid = EncodeUri(cs, cl) /\ cdec = [server |-> cs, local |-> cl])

\* a decoded locator whose local uri holds "mcp://<server>/" once more
C11_Witness ==
    /\ cpc = "done"
    /\ cap0 = "resources"
    /\ IndexOf(cl, SCHEME \o cs \o SLASH) # 0
    /\ cdec.server = cs

\* C12, as claimed: in the result of a list of tools or of prompts over
\* enabled definitions with pairwise distinct names, the items of one
\* server and the items of another have no namespaced name in common
C12_NoCrossServerCollision ==
    \A n \in ReqIds :
        LET r == reqs[n]
            enabled == {d \in DefIds : r.seen[d].is_active}
        IN  (/\ IsDone(r, "list")
             /\ r.cap \in {"tools", "prompts"}
             /\ \A d, e \in enabled : d # e => r.seen[d].name # r.seen[e].name) =>
                \A i, j \in 1..Len(r.answered) :
                    i # j => Range(ListedItems(r, r.answered[i]))
                                 \cap Range(ListedItems(r, r.answered[j])) = {}

\* C13, as claimed: no stored definition has a name that holds "__"
C13_NoSeparatorInNames ==
    \A d \in DOMAIN store : ~HasSep(store[d].name)

\* C14, as claimed: a call-tool or get-prompt request whose identifier
\* holds no "__" fails with server-not-found and nothing is sent upstream
C14_NoSeparatorIsNotFound ==
    \A n \in ReqIds :
        LET r == reqs[n]
        IN  (/\ IsDone(r, "invoke")
             /\ r.cap \in {"tools", "prompts"}
             /\ ~HasSep(r.id)) =>
                (r.outcome = "notfound" /\ r.forwards = <<>>)

\* C15, as claimed: a connection of a router never serves invocations
\* addressed to two different server names, so an invocation under a
\* definition's new name is not sent on the connection made under its old one
C15_RenameNewConnection ==
    \A n, m \in ReqIds :
        \A i \in DOMAIN reqs[n].forwards, j \in DOMAIN reqs[m].forwards :
            (/\ reqs[n].kind = "invoke" /\ reqs[m].kind = "invoke"
             /\ reqs[n].router = reqs[m].router
             /\ reqs[n].forwards[i].def = reqs[m].forwards[j].def
             /\ reqs[n].forwards[i].conn = reqs[m].forwards[j].conn) =>
                reqs[n].server = reqs[m].server

\* C16, as claimed: a list operation that has started completes in the
\* end, although an upstream other than the responsive ones never settles
\* its handshake or its request
C16_ListCompletes ==
    \A n \in ReqIds :
        (reqs[n].kind = "list" /\ reqs[n].pc # "done") ~> (reqs[n].pc = "done")

ReadsStore(n) ==
    /\ reqs[n].pc = "getActive"
    /\ reqs'[n].pc # "getActive"
    /\ reqs'[n].outcome # "storeerr"

EnabledNow == {d \in DefIds : store[d].is_active}

\* C17: the set an operation works on is the set of definitions enabled in
\* the store at the moment the operation reads it, whatever was enabled
\* before: a list visits exactly those, an invocation finds its target among
\* those or fails; and nothing is ever sent to, or listed from, a definition
\* that read did not show enabled
C17_ReadsStoreEachTime ==
    /\ [][\A n \in ReqIds :
            ReadsStore(n) =>
              LET r == reqs'[n]
              IN  /\ r.seen = store
                  /\ r.kind = "list" =>
                        /\ {r.active[i].id : i \in DOMAIN r.active} = EnabledNow
                        /\ Len(r.active) = Cardinality(EnabledNow)
                  /\ r.kind = "invoke" =>
                        IF \E d \in EnabledNow : store[d].name = r.server
                        THEN r.target \in EnabledNow /\ store[r.target].name = r.server
                        ELSE r.outcome = "notfound"]_vars
    /\ [](\A n \in ReqIds :
            LET r == reqs[n]
            IN  /\ \A i \in DOMAIN r.forwards : r.seen[r.forwards[i].def].is_active
                /\ \A d \in Range(r.answered) \cup Range(r.failed) : r.seen[d].is_active
                /\ IsDone(r, "list") =>
                      \A d \in DefIds :
                          r.seen[d].is_active => d \in Range(r.answered) \cup Range(r.failed))

\* two lists of one session: the first, read while d1 was disabled, left d1
\* out and the second, read after d1 was enabled again, has its items
C17_Witness ==
    /\ IsDone(reqs[1], "list") /\ IsDone(reqs[2], "list")
    /\ reqs[1].router = reqs[2].router
    /\ ~reqs[1].seen["d1"].is_active
    /\ "d1" \notin Range(reqs[1].answered) \cup Range(reqs[1].failed)
    /\ "d2" \in Range(reqs[1].answered)
    /\ "d1" \in Range(reqs[2].answered)

\* C18, as claimed: open sessions have pairwise distinct ids, and no step
\* replaces or removes the registry entry of a session that stays open
C18_SessionIdsOneToOne ==
    /\ [](\A j, k \in Routers :
            (j # k /\ sess[j].state = "open" /\ sess[k].state = "open") =>
                sess[j].sid # sess[k].sid)
    /\ [][\A j \in Routers :
            (sess[j].state = "open" /\ sess'[j].state = "open") =>
                Lookup(transports', sess[j].sid) = Lookup(transports, sess[j].sid)]_vars

\* C19, as claimed: a step in which one session opens, fails or closes
\* leaves every other open session as it is, with its registry entry and
\* its router's cached connections; and the id of an open session leads a
\* post to that session's own transport
C19_SessionsIsolated ==
    /\ [][\A j, k \in Routers :
            (j # k /\ sess'[k] # sess[k] /\ sess[j].state = "open") =>
                /\ sess'[j] = sess[j]
                /\ Lookup(transports', sess[j].sid) = Lookup(transports, sess[j].sid)
                /\ childClients'[j] = childClients[j]]_vars
    /\ [](\A j \in Routers :
            (sess[j].state = "open" /\ sess[j].sid # "") =>
                Lookup(transports, sess[j].sid) = j)

\* C20: an invocation that found its target enabled ends with the very
\* error its connect or its request was rejected with, as soon as that
\* happens; it ends well only if nothing was rejected and the upstream
\* answered the one request sent to it
C20_ErrorsPassThrough ==
    \A n \in ReqIds :
        LET r == reqs[n]
        IN  (r.kind = "invoke" /\ r.target # "") =>
              /\ r.raised # "" => (r.pc = "done" /\ r.outcome = r.raised)
              /\ r.created > r.wrote + (IF r.pc = "connecting" THEN 1 ELSE 0) =>
                    r.raised = "connecterr"
              /\ (r.pc = "done" /\ r.outcome = "ok") =>
                    (r.raised = "" /\ Len(r.forwards) = 1 /\ r.answered = <<r.target>>)
              /\ r.pc = "done" => r.outcome \in {"ok", "connecterr", "upstreamerr"}

\* one invocation failed with the upstream's error after it was forwarded,
\* another with the error of the connection attempt
C20_Witness ==
    \E n, m \in ReqIds :
        /\ IsDone(reqs[n], "invoke") /\ reqs[n].target # ""
        /\ reqs[n].outcome = "upstreamerr" /\ Len(reqs[n].forwards) = 1
        /\ IsDone(reqs[m], "invoke") /\ reqs[m].target # ""
        /\ reqs[m].outcome = "connecterr" /\ reqs[m].forwards = <<>>

\* where the items of the i-th server that answered begin in the result
RECURSIVE Offset(_, _)
Offset(r, i) ==
    IF i <= 1 THEN 0
    ELSE Offset(r, i - 1) + Len(UpstreamItems(r.answered[i - 1], r.cap))

\* C21: at every moment of a list operation its result is made of one run
\* of items per server that answered, each server once, and the run of a
\* server holds that server's items one by one in the order the upstream
\* reported them, each under the server's name
C21_UpstreamOrderKept ==
    \A n \in ReqIds :
        LET r == reqs[n]
        IN  r.kind = "list" =>
              /\ \A i, j \in 1..Len(r.answered) : r.answered[i] = r.answered[j] => i = j
              /\ Len(r.result) = Offset(r, Len(r.answered) + 1)
              /\ \A i \in 1..Len(r.answered) :
                    LET items == UpstreamItems(r.answered[i], r.cap)
                    IN  \A j \in 1..Len(items) :
                            r.result[Offset(r, i) + j]
                                = Namespaced(r.cap, r.seen[r.answered[i]].name, items[j])

\* a finished list of tools with the two items of d1 and the item of d2
C21_Witness ==
    \E n \in ReqIds :
        /\ IsDone(reqs[n], "list")
        /\ reqs[n].cap = "tools"
        /\ Len(reqs[n].answered) = 2
        /\ Len(reqs[n].result) = 3

\* the Clients of router k for definition d whose handshake succeeded
LiveClients(k, d) == {j \in 1..attempts[k][d] : <<k, d, j>> \in live}

\* C22, as claimed: however the requests of a router interleave, at most
\* one Client per definition completes a handshake, and a Client whose
\* handshake succeeded is the one the cache holds
C22_OneHandshakePerDefinition ==
    \A k \in Routers, d \in DefIds :
        /\ Cardinality(LiveClients(k, d)) <= 1
        /\ \A j \in LiveClients(k, d) :
              d \in DOMAIN childClients[k] /\ childClients[k][d] = j

\* C23, as claimed: a post with the id of a session that is still opening
\* (registered, the hub server's connect not yet resolved) is not handed to
\* that session's transport
C23_NoDeliveryWhileOpening ==
    [][\A k \in Routers :
          (/\ sess[k].state = "opening"
           /\ Lookup(transports, sess[k].sid) = k
           /\ lastPost' # lastPost
           /\ lastPost'.sid = sess[k].sid) =>
              lastPost'.to # k]_vars

Decoded(r) == IF r.cap = "resources" THEN DecodeUri(r.id) ELSE DecodeName(r.id)

\* the enabled definitions that had the decoded server name when r read the store
Named(r) == {d \in DefIds : r.seen[d].is_active /\ r.seen[d].name = Decoded(r).server}

\* C24: an invocation never sends more than one request, and only to the
\* one enabled definition that has the decoded server name; when it ends
\* well it sent exactly one, on a connected Client of that definition, with
\* the decoded local identifier and the caller's arguments, and it returns
\* what that upstream answered to exactly that request
C24_ForwardedOnceUnchanged ==
    \A n \in ReqIds :
        LET r == reqs[n]
        IN  r.kind = "invoke" =>
              /\ Len(r.forwards) <= 1
              /\ \A i \in DOMAIN r.forwards :
                    /\ Named(r) = {r.forwards[i].def}
                    /\ <<r.router, r.forwards[i].def, r.forwards[i].conn>> \in live
                    /\ r.forwards[i].local = Decoded(r).local
                    /\ r.forwards[i].args = (IF r.cap = "resources" THEN NoArgs ELSE r.args)
              /\ (r.pc = "done" /\ r.outcome = "ok") =>
                    /\ Len(r.forwards) = 1
                    /\ r.result = <<UpstreamReply(r.forwards[1].def, r.cap, Decoded(r).local,
                                                  IF r.cap = "resources" THEN NoArgs ELSE r.args)>>

\* a call with arguments "w" for the identifier a___b, served by d1 under
\* the local name _b
C24_Witness ==
    \E n \in ReqIds :
        /\ IsDone(reqs[n], "invoke") /\ reqs[n].outcome = "ok"
        /\ reqs[n].id = EncodeName(<<"a">>, <<"_", "b">>)
        /\ reqs[n].args = "w"
        /\ reqs[n].result = <<UpstreamReply("d1", reqs[n].cap, <<"_", "b">>, "w")>>

\* C25, as claimed: a post with the id of a registered session whose stream
\* is open is handed to the transport registered under that id and answered
\* with 202
C25_RegisteredPostAccepted ==
    [][\A sid \in DOMAIN transports :
          (/\ lastPost' # lastPost
           /\ lastPost'.sid = sid
           /\ transports[sid] \in Routers
           /\ sess[transports[sid]].state = "open") =>
              (lastPost'.status = 202 /\ lastPost'.to = transports[sid])]_vars

\* C27, as claimed: once the hub server's connect to a new session's
\* transport has failed, the registry has no entry that leads to it
C27_FailedOpenUnregistered ==
    \A k \in Routers :
        sess[k].state = "failed" => Lookup(transports, sess[k].sid) # k

\* C28, as claimed: no session is registered under the empty string, and
\* no post with a registered id is answered 400
C28_SessionIdsNonEmpty ==
    /\ "" \notin DOMAIN transports
    /\ \A k \in Routers : sess[k].state # "none" => sess[k].sid # ""
    /\ lastPost.known => lastPost.status # 400

\* C26: the environment of a stdio transport has the keys of the process
\* environment and of the definition's env; a key of the definition's env
\* has the definition's value, every other key the process's value
C26_EnvOverlay ==
    childTransport.kind = "stdio" =>
        LET given == ServerEnv(mcpServer)
        IN  /\ DOMAIN childTransport.env = DOMAIN processEnv \cup DOMAIN given
            /\ \A key \in DOMAIN given : childTransport.env[key] = given[key]
            /\ \A key \in DOMAIN processEnv \ DOMAIN given :
                  childTransport.env[key] = processEnv[key]

\* a stdio transport for a definition that sets PATH to another value than
\* the process has, and leaves HOME to the process
C26_Witness ==
    /\ childTransport.kind = "stdio"
    /\ "env" \in DOMAIN mcpServer
    /\ "PATH" \in DOMAIN mcpServer.env /\ "PATH" \in DOMAIN processEnv
    /\ mcpServer.env["PATH"] # processEnv["PATH"]
    /\ "HOME" \in DOMAIN processEnv \ DOMAIN mcpServer.env
    /\ childTransport.env["PATH"] = mcpServer.env["PATH"]

\* C29, as claimed: a cache entry, once made, is never removed and never
\* replaced by another Client
C29_CacheEntryStable ==
    [][\A k \in Routers, d \in DefIds :
          d \in DOMAIN childClients[k] =>
              (d \in DOMAIN childClients'[k] /\ childClients'[k][d] = childClients[k][d])]_vars

\* C30: an operation whose store query failed has ended with the store's
\* error; it has no result, constructed no Client, wrote nothing to the
\* cache and sent nothing upstream
C30_StoreFailureFailsWhole ==
    \A n \in ReqIds :
        LET r == reqs[n]
        IN  r.raised = "storeerr" =>
              /\ r.pc = "done" /\ r.outcome = "storeerr"
              /\ r.result = <<>> /\ r.answered = <<>> /\ r.failed = <<>>
              /\ r.created = 0 /\ r.wrote = 0 /\ r.forwards = <<>>

\* a list that failed on the store, in a session whose router holds the
\* connections an earlier list made
C30_Witness ==
    /\ IsDone(reqs[1], "list") /\ reqs[1].outcome = "ok" /\ Len(reqs[1].answered) = 2
    /\ reqs[2].kind = "list" /\ reqs[2].outcome = "storeerr"
    /\ reqs[2].router = reqs[1].router
    /\ DOMAIN childClients[reqs[1].router] = DefIds

=============================================================================
